---- MODULE Spec2Model ----
(***************************************************************************)
(* Tasty Bites server: the CRUD dispatcher (utils/crudOperation.js), the   *)
(* helpers (utils/helpers.js) and the protected routes of index.js, over a *)
(* document store with three collections (foods, wishlists, orders).       *)
(*                                                                         *)
(* A request is handled by one asynchronous task.  The task only touches   *)
(* request-local data between two store calls, so one action of the model  *)
(* is one store call together with the handler code that runs up to the    *)
(* next await: tasks of different requests interleave at the awaits.       *)
(***************************************************************************)
EXTENDS Integers, Sequences, FiniteSets, TLC

VARIABLES
    foods,      \* foodCollection: a set of Food documents
    wishlists,  \* wishlistCollection: a set of WishlistItem documents
    orders,     \* orderCollection: a set of Order documents
    nextId,     \* the next ObjectId the driver generates (never reused)
    now,        \* Date.now(): the clock advances with every handler run
    pc,         \* per request: "idle" | "create" | "bulk" | "done"
    req,        \* per request: what the client sent
    sent,       \* per request: the status codes written on res, in order
    calls,      \* per request: number of store calls issued for it
    errs,       \* per request: where exceptions were raised, in order
    logged,     \* per request: number of console.error calls
    thrown,     \* per request: the handler's promise was rejected
    doneAt,     \* per request: the time its task ended (0 while it runs)
    ret         \* per call of a helper: the value it returned or emitted

vars == <<foods, wishlists, orders, nextId, now, pc, req, sent, calls, errs,
          logged, thrown, doneAt, ret>>

(***************************************************************************)
(* Bounds of the model.                                                    *)
(***************************************************************************)
\* largest quantity a request body or a line item carries
MaxQty == 2
\* largest number of line items of one checkout
MaxItems == 2

\* The concurrent requests of one run.
Slots == {"r1", "r2", "r3"}

(***************************************************************************)
(* JSON values of the numeric fields.  A number n is Num(n); the decimal   *)
(* string of n is Str(n); Empty is the string ""; Null is null; Text is a  *)
(* non-empty string that is no numeral; NaN is the number NaN.  A field    *)
(* the object does not have is outside the record's domain.                *)
(***************************************************************************)
Num(n) == [t |-> "num", v |-> n]
Str(n) == [t |-> "str", v |-> n]
Empty == [t |-> "empty", v |-> 0]
Null == [t |-> "null", v |-> 0]
Text == [t |-> "text", v |-> 0]
NaN == [t |-> "nan", v |-> 0]
\* an object or array, such as a store result
Obj == [t |-> "obj", v |-> 0]

IsNum(x) == x.t = "num"

\* Mutant: the string "0" counts as falsy, like the number 0.
TruthyUnlessZero(x) ==
    CASE x.t = "num" -> x.v # 0
      [] x.t = "str" -> x.v # 0
      [] x.t = "text" -> TRUE
      [] x.t = "obj" -> TRUE
      [] OTHER -> FALSE

\* JavaScript truthiness: 0, NaN, "", null and undefined are falsy; every
\* non-empty string, "0" included, is truthy.
Truthy(x) ==
    CASE x.t = "num" -> x.v # 0
      [] x.t = "str" -> TRUE
      [] x.t = "text" -> TRUE
      [] x.t = "obj" -> TRUE
      [] OTHER -> FALSE

\* JavaScript Number(x) on the values above: a numeral gives its number, a
\* string that is no numeral gives NaN, "" and null give 0.
ToNumber(x) ==
    CASE x.t = "num" -> x
      [] x.t = "str" -> Num(x.v)
      [] x.t = "text" -> NaN
      [] x.t = "nan" -> NaN
      [] x.t = "obj" -> NaN
      [] OTHER -> Num(0)

\* helpers.js convertNumberFields: every field of `fields` the object has
\* with a truthy value is replaced by Number(value).
convertNumberFields(obj, fields) ==
    [f \in DOMAIN obj |->
        IF f \in fields /\ Truthy(obj[f]) THEN ToNumber(obj[f]) ELSE obj[f]]

(***************************************************************************)
(* helpers.js respond: one res.status(status).json(...) call.  The model   *)
(* records the status code of every response written on res.               *)
(***************************************************************************)
respond(res, status) == Append(res, status)

(***************************************************************************)
(* helpers.js respond, lines 63-104: the body handed to res.json.  A text  *)
(* is the sequence of its characters; the message argument is omitted      *)
(* (null) or a text, "" included.                                          *)
(***************************************************************************)
UpperLetters ==
    <<"A", "B", "C", "D", "E", "F", "G", "H", "I", "J", "K", "L", "M",
      "N", "O", "P", "Q", "R", "S", "T", "U", "V", "W", "X", "Y", "Z">>

LowerLetters ==
    <<"a", "b", "c", "d", "e", "f", "g", "h", "i", "j", "k", "l", "m",
      "n", "o", "p", "q", "r", "s", "t", "u", "v", "w", "x", "y", "z">>

\* String.prototype.toUpperCase, character by character
toUpperCase(text) ==
    [i \in 1..Len(text) |->
        IF \E k \in 1..Len(LowerLetters) : LowerLetters[k] = text[i]
        THEN UpperLetters[CHOOSE k \in 1..Len(LowerLetters) : LowerLetters[k] = text[i]]
        ELSE text[i]]

\* String.prototype.toLowerCase, character by character
toLowerCase(text) ==
    [i \in 1..Len(text) |->
        IF \E k \in 1..Len(UpperLetters) : UpperLetters[k] = text[i]
        THEN LowerLetters[CHOOSE k \in 1..Len(UpperLetters) : UpperLetters[k] = text[i]]
        ELSE text[i]]

\* capitalizeFirstLetter, lines 64-68:
\* text.charAt(0).toUpperCase() + text.slice(1).toLowerCase()
capitalizeFirstLetter(text) ==
    IF text = <<>> THEN text
    ELSE toUpperCase(SubSeq(text, 1, 1))
            \o toLowerCase(SubSeq(text, 2, Len(text)))

\* The status codes of the statusMessages table, lines 70-89.
TableCodes == {200, 201, 202, 204, 400, 401, 403, 404, 409, 500, 501, 502, 503}

\* The statusMessages table, lines 70-89.
statusMessages(status) ==
    CASE status = 200 ->
         <<"R", "e", "q", "u", "e", "s", "t", " ", "p", "r", "o", "c",
           "e", "s", "s", "e", "d", " ", "s", "u", "c", "c", "e", "s",
           "s", "f", "u", "l", "l", "y">>
      [] status = 201 ->
         <<"R", "e", "s", "o", "u", "r", "c", "e", " ", "c", "r", "e",
           "a", "t", "e", "d", " ", "s", "u", "c", "c", "e", "s", "s",
           "f", "u", "l", "l", "y">>
      [] status = 202 ->
         <<"R", "e", "q", "u", "e", "s", "t", " ", "a", "c", "c", "e",
           "p", "t", "e", "d", " ", "f", "o", "r", " ", "p", "r", "o",
           "c", "e", "s", "s", "i", "n", "g">>
      [] status = 204 ->
         <<"N", "o", " ", "c", "o", "n", "t", "e", "n", "t", " ", "a",
           "v", "a", "i", "l", "a", "b", "l", "e">>
      [] status = 400 ->
         <<"B", "a", "d", " ", "r", "e", "q", "u", "e", "s", "t">>
      [] status = 401 ->
         <<"U", "n", "a", "u", "t", "h", "o", "r", "i", "z", "e", "d",
           " ", "a", "c", "c", "e", "s", "s">>
      [] status = 403 ->
         <<"F", "o", "r", "b", "i", "d", "d", "e", "n">>
      [] status = 404 ->
         <<"R", "e", "s", "o", "u", "r", "c", "e", " ", "n", "o", "t",
           " ", "f", "o", "u", "n", "d">>
      [] status = 409 ->
         <<"C", "o", "n", "f", "l", "i", "c", "t", " ", "-", " ", "R",
           "e", "s", "o", "u", "r", "c", "e", " ", "a", "l", "r", "e",
           "a", "d", "y", " ", "e", "x", "i", "s", "t", "s">>
      [] status = 500 ->
         <<"I", "n", "t", "e", "r", "n", "a", "l", " ", "s", "e", "r",
           "v", "e", "r", " ", "e", "r", "r", "o", "r">>
      [] status = 501 ->
         <<"N", "o", "t", " ", "i", "m", "p", "l", "e", "m", "e", "n",
           "t", "e", "d">>
      [] status = 502 ->
         <<"B", "a", "d", " ", "g", "a", "t", "e", "w", "a", "y">>
      [] status = 503 ->
         <<"S", "e", "r", "v", "i", "c", "e", " ", "u", "n", "a", "v",
           "a", "i", "l", "a", "b", "l", "e">>

OperationSuccessful ==
    <<"O", "p", "e", "r", "a", "t", "i", "o", "n", " ", "s", "u",
      "c", "c", "e", "s", "s", "f", "u", "l">>

OperationFailed ==
    <<"O", "p", "e", "r", "a", "t", "i", "o", "n", " ", "f", "a",
      "i", "l", "e", "d">>

\* The message argument: omitted (null), or a text.
NoMessage == [given |-> FALSE, text |-> <<>>]

Message(text) == [given |-> TRUE, text |-> text]

\* The object respond hands to res.status(status).json(...), lines 91-103.
responseBody(status, message, data) ==
    LET success == status >= 200 /\ status < 300
        text == IF message.given /\ message.text # <<>> THEN message.text
                ELSE IF status \in TableCodes THEN statusMessages(status)
                ELSE IF success THEN OperationSuccessful ELSE OperationFailed
        response == [success |-> success,
                     message |-> capitalizeFirstLetter(text)]
    IN IF Truthy(data) THEN response @@ [data |-> data] ELSE response

(***************************************************************************)
(* The store.  ObjectIds are positive numbers; a route parameter 0 is a    *)
(* string that is no valid ObjectId.  A filter is {} ("all"), {_id: v},    *)
(* {foodId: v} or {"addedBy.email" / "user.email": v}.                     *)
(***************************************************************************)
AllFilter == [k |-> "all", v |-> 0, e |-> ""]
IdFilter(id) == [k |-> "id", v |-> id, e |-> ""]
FoodIdFilter(id) == [k |-> "foodId", v |-> id, e |-> ""]
EmailFilter(email) == [k |-> "email", v |-> 0, e |-> email]

Matches(doc, filter) ==
    CASE filter.k = "all" -> TRUE
      [] filter.k = "id" -> doc.id = filter.v
      [] filter.k = "foodId" -> doc.foodId = filter.v
      [] filter.k = "email" -> doc.email = filter.e

\* collection.find(filter).toArray()
find(docs, filter) == {d \in docs : Matches(d, filter)}

\* The first match in natural (insertion) order.
FirstMatch(docs, filter) ==
    CHOOSE d \in find(docs, filter) : \A e \in find(docs, filter) : d.id <= e.id

\* collection.insertOne(data): the driver stamps a fresh _id.
insertOne(docs, data, id) == docs \cup {[id |-> id] @@ data}

\* $set: the fields of `data` replace or extend those of the document.
SetMerge(doc, data) ==
    [f \in DOMAIN doc \cup DOMAIN data |->
        IF f \in DOMAIN data THEN data[f] ELSE doc[f]]

\* crudOperation.js line 57: delete data._id
StripId(data) == [f \in DOMAIN data \ {"id"} |-> data[f]]

\* collection.updateOne(filter, {$set: data}): [docs, modifiedCount]
updateOne(docs, filter, data) ==
    IF find(docs, filter) = {} THEN [docs |-> docs, modifiedCount |-> 0]
    ELSE LET d == FirstMatch(docs, filter)
             m == SetMerge(d, data)
         IN [docs |-> (docs \ {d}) \cup {m},
             modifiedCount |-> IF m = d THEN 0 ELSE 1]

\* collection.deleteOne(filter): [docs, deletedCount]
deleteOne(docs, filter) ==
    IF find(docs, filter) = {} THEN [docs |-> docs, deletedCount |-> 0]
    ELSE [docs |-> docs \ {FirstMatch(docs, filter)}, deletedCount |-> 1]

(***************************************************************************)
(* utils/crudOperation.js                                                  *)
(***************************************************************************)
Operations == {"create", "read", "readOne", "update", "delete", "patch"}

\* A null payload (the readOne and my-foods callers pass null).
NullData == [null |-> TRUE]

\* Store outcomes: the call returns ("ok"), raises ("throws"), or, for an
\* insert, returns a result that carries no insertedId ("noid").
Outcomes(operation) ==
    IF operation = "create" THEN {"ok", "throws", "noid"} ELSE {"ok", "throws"}

\* Mutant: the catch block logs and rethrows.
CatchBlockRethrows(res) == [res |-> res, logged |-> 1, rejects |-> TRUE]

\* catch (err) { console.error("Error:", err); }  -- no response, no rethrow
CatchBlock(res) == [res |-> res, logged |-> 1, rejects |-> FALSE]

\* One branch of the switch that returned respond(res, status, ...).
Responded(docs, res, status, n) ==
    [docs |-> docs, calls |-> n, raised |-> FALSE, res |-> respond(res, status),
     logged |-> 0, rejects |-> FALSE]

\* An exception raised inside the try block after n store calls were issued.
Raised(docs, res, n) ==
    [docs |-> docs, calls |-> n, raised |-> TRUE] @@ CatchBlock(res)

\* case "create"
Create(docs, data, res, out, id) ==
    IF out = "throws" \/ data = NullData THEN Raised(docs, res, 1)
    ELSE IF out = "noid" THEN Responded(docs, res, 400, 1)
    ELSE Responded(insertOne(docs, data, id), res, 201, 1)

\* case "read"
Read(docs, res, filter, out) ==
    IF out = "throws" THEN Raised(docs, res, 1)
    ELSE IF find(docs, filter) = {} THEN Responded(docs, res, 404, 1)
    ELSE Responded(docs, res, 200, 1)

\* case "readOne"
ReadOne(docs, res, filter, out) ==
    IF out = "throws" THEN Raised(docs, res, 1)
    ELSE IF find(docs, filter) = {} THEN Responded(docs, res, 404, 1)
    ELSE Responded(docs, res, 200, 1)

\* Mutant: the update branch tests matchedCount instead of modifiedCount.
UpdateByMatched(docs, data, res, filter, out) ==
    IF data = NullData THEN Raised(docs, res, 0)
    ELSE IF out = "throws" THEN Raised(docs, res, 1)
    ELSE IF find(docs, filter) = {} THEN Responded(docs, res, 404, 1)
    ELSE Responded(updateOne(docs, filter, StripId(data)).docs, res, 200, 1)

\* case "update": `delete data._id` raises a TypeError on a null payload,
\* before the store is called.
Update(docs, data, res, filter, out) ==
    IF data = NullData THEN Raised(docs, res, 0)
    ELSE IF out = "throws" THEN Raised(docs, res, 1)
    ELSE LET result == updateOne(docs, filter, StripId(data))
         IN IF result.modifiedCount = 0 THEN Responded(docs, res, 404, 1)
            ELSE Responded(result.docs, res, 200, 1)

\* Mutant: the delete branch tests the result object, not its deletedCount.
DeleteAlwaysFound(docs, res, filter, out) ==
    IF out = "throws" THEN Raised(docs, res, 1)
    ELSE Responded(deleteOne(docs, filter).docs, res, 200, 1)

\* case "delete"
Delete(docs, res, filter, out) ==
    IF out = "throws" THEN Raised(docs, res, 1)
    ELSE LET result == deleteOne(docs, filter)
         IN IF result.deletedCount = 0 THEN Responded(docs, res, 404, 1)
            ELSE Responded(result.docs, res, 200, 1)

\* Mutant: the default branch leaves the switch without responding.
InvalidOperationSilent(docs, res) ==
    [docs |-> docs, calls |-> 0, raised |-> FALSE, res |-> res, logged |-> 0,
     rejects |-> FALSE]

\* default
InvalidOperation(docs, res) == Responded(docs, res, 400, 0)

\* crudOperation(operation, collection, data, res, {filter}): the new
\* collection, the responses on res, the store calls issued, whether an
\* exception was raised and logged, and whether the returned promise rejects.
crudOperation(operation, docs, data, res, filter, out, id) ==
    CASE operation = "create" -> Create(docs, data, res, out, id)
      [] operation = "read" -> Read(docs, res, filter, out)
      [] operation = "readOne" -> ReadOne(docs, res, filter, out)
      [] operation = "update" -> Update(docs, data, res, filter, out)
      [] operation = "delete" -> Delete(docs, res, filter, out)
      [] OTHER -> InvalidOperation(docs, res)

(***************************************************************************)
(* Requests.                                                               *)
(***************************************************************************)
Emails == {"a@x.io", "b@x.io"}

\* The token of a request: none, one that fails jwt.verify, or a signed one
\* whose claims carry `email` ("" when the claims carry no email).
NoToken == [kind |-> "none", email |-> ""]
BadToken == [kind |-> "bad", email |-> ""]
Signed(e) == [kind |-> "valid", email |-> e]
Tokens == {NoToken, BadToken} \cup {Signed(e) : e \in Emails \cup {"", "nobody"}}
\* One token of each kind.
GateTokens == {NoToken, BadToken, Signed("a@x.io")}
\* The tokens verifyToken lets through with a well-formed email.
UserTokens == {Signed(e) : e \in Emails}

\* emailRegex.test(email), index.js line 117
emailRegexTest(e) == e \in Emails

\* Route parameters :id -- 0 is a string that is no valid ObjectId; the others
\* are the ObjectIds the driver has generated so far (a client cannot name an
\* ObjectId before the driver generates it).
IdParams == 0..(nextId - 1)
ObjectIdIsValid(id) == id # 0

NoBody == [none |-> TRUE]

\* The request reaches the server.
Arrive(r, route, token, id, body) ==
    /\ pc[r] = "idle"
    /\ req' = [req EXCEPT ![r] =
                  [route |-> route, token |-> token, id |-> id, body |-> body,
                   at |-> now]]

\* What one run of the request's task leaves behind: where it continues, the
\* responses on res, the store calls it issued, the catch blocks that ran.
Step(r, next, res, n, caught, nlog, rejected) ==
    /\ pc' = [pc EXCEPT ![r] = next]
    /\ sent' = [sent EXCEPT ![r] = res]
    /\ calls' = [calls EXCEPT ![r] = @ + n]
    /\ errs' = [errs EXCEPT ![r] = @ \o caught]
    /\ logged' = [logged EXCEPT ![r] = @ + nlog]
    /\ thrown' = [thrown EXCEPT ![r] = rejected]
    /\ doneAt' = [doneAt EXCEPT ![r] = IF next = "done" THEN now ELSE 0]
    /\ now' = now + 1
    /\ ret' = ret

(***************************************************************************)
(* Middleware, index.js lines 59-87.                                       *)
(***************************************************************************)
\* Mutant: the jwt.verify error branch responds 401 and goes on to next().
verifyTokenFallsThrough(token, res) ==
    IF token.kind = "none" THEN [res |-> Append(res, 401), next |-> FALSE]
    ELSE IF token.kind = "bad" THEN [res |-> Append(res, 401), next |-> TRUE]
    ELSE [res |-> res, next |-> TRUE]

verifyToken(token, res) ==
    IF token.kind = "none" THEN [res |-> Append(res, 401), next |-> FALSE]
    ELSE IF token.kind = "bad" THEN [res |-> Append(res, 401), next |-> FALSE]
    ELSE [res |-> res, next |-> TRUE]

validateObjectId(id, res) ==
    IF ~ObjectIdIsValid(id) THEN [res |-> respond(res, 400), next |-> FALSE]
    ELSE [res |-> res, next |-> TRUE]

\* app.<method>(path, verifyToken[, validateObjectId], handler)
Middleware(token, id, withId) ==
    LET vt == verifyToken(token, <<>>)
    IN IF vt.next /\ withId THEN validateObjectId(id, vt.res) ELSE vt

\* The request ended in the middleware: the handler never ran.
Rejected(r, res) ==
    /\ Step(r, "done", res, 0, <<>>, 0, FALSE)
    /\ UNCHANGED <<foods, wishlists, orders, nextId>>

(***************************************************************************)
(* How a route handler ends after `await crudOperation(...)` returned c.   *)
(* Its catch block runs only when the awaited promise rejects; it either   *)
(* logs and rethrows ("rethrow") or responds 500 ("respond500"); a direct  *)
(* caller has none ("none").                                               *)
(***************************************************************************)
AfterCrud(c, catchKind) ==
    [res |-> IF c.rejects /\ catchKind = "respond500"
             THEN respond(c.res, 500) ELSE c.res,
     caught |-> (IF c.raised THEN <<"crudOperation">> ELSE <<>>)
                \o (IF c.rejects /\ catchKind # "none"
                    THEN <<"handler">> ELSE <<>>),
     logged |-> c.logged + (IF c.rejects /\ catchKind = "rethrow" THEN 1 ELSE 0),
     thrown |-> c.rejects /\ catchKind # "respond500"]

Finish(r, c, catchKind) ==
    LET h == AfterCrud(c, catchKind)
    IN Step(r, "done", h.res, c.calls, h.caught, h.logged, h.thrown)

(***************************************************************************)
(* A direct call crudOperation(operation, foodCollection, data, res,       *)
(* {filter}) with any operation name and any store outcome.                *)
(***************************************************************************)
SeedFood(id, name, email, quantity) ==
    [id |-> id, name |-> name, image |-> "img", email |-> email,
     quantity |-> quantity, purchaseCount |-> 0, createAt |-> 0, updateAt |-> 0]

Filters == {AllFilter} \cup {IdFilter(i) : i \in 1..(nextId - 1)}
             \cup {EmailFilter(e) : e \in Emails}

CreateData ==
    {NullData,
     [name |-> <<"p", "i">>, image |-> "img", email |-> "a@x.io",
      quantity |-> Num(1), purchaseCount |-> 0, createAt |-> 0, updateAt |-> 0]}

UpdateData ==
    {NullData, [id |-> 3, quantity |-> Num(1)]}
      \cup {[quantity |-> Num(n)] : n \in 0..MaxQty}

\* The arguments that matter to each operation.
DispatchCalls ==
    {[op |-> "create", data |-> d, filter |-> AllFilter] : d \in CreateData}
      \cup {[op |-> o, data |-> NullData, filter |-> f] :
               o \in {"read", "readOne", "delete", "patch"}, f \in Filters}
      \cup {[op |-> "update", data |-> d, filter |-> f] :
               d \in UpdateData, f \in Filters}

DispatchWith(r, dispatchCalls) ==
    \E call \in dispatchCalls :
      \E out \in Outcomes(call.op) :
        LET c == crudOperation(call.op, foods, call.data, <<>>, call.filter,
                               out, nextId)
        IN /\ Arrive(r, "crudOperation", Signed("a@x.io"), 0,
                     call @@ [out |-> out])
           /\ foods' = c.docs
           /\ nextId' = IF c.docs = foods \/ call.op # "create"
                        THEN nextId ELSE nextId + 1
           /\ Finish(r, c, "none")
           /\ UNCHANGED <<wishlists, orders>>

Dispatch(r) == DispatchWith(r, DispatchCalls)

(***************************************************************************)
(* Food routes.                                                            *)
(***************************************************************************)
\* Food names are strings of letters and "+".
Names == {<<"p", "i">>, <<"P", "i">>, <<"a", "+", "b">>}

Lower(ch) == CASE ch = "P" -> "p" [] ch = "A" -> "a" [] OTHER -> ch

\* new RegExp(`^${name}`, "i").test(s): the name is spliced into the pattern
\* unescaped, so a "+" after a character is the one-or-more quantifier.
RECURSIVE RegexTest(_, _)
RegexTest(pattern, s) ==
    IF pattern = <<>> THEN TRUE
    ELSE IF Len(pattern) >= 2 /\ pattern[2] = "+"
    THEN \E k \in 1..Len(s) :
            /\ \A i \in 1..k : Lower(s[i]) = Lower(pattern[1])
            /\ RegexTest(SubSeq(pattern, 3, Len(pattern)), SubSeq(s, k + 1, Len(s)))
    ELSE /\ s # <<>>
         /\ Lower(s[1]) = Lower(pattern[1])
         /\ RegexTest(Tail(pattern), Tail(s))

\* The quantity a client may send: a number, its decimal string, or "".
QtyValues == {Num(n) : n \in 0..MaxQty} \cup {Str(0), Str(MaxQty), Empty}

\* The body of POST /add/food (email is addedBy.email).
FoodBodies ==
    {[name |-> n, image |-> "img", email |-> e, quantity |-> q,
      purchaseCount |-> 0] : n \in Names, e \in Emails, q \in QtyValues}

\* foodCollection.findOne({name: {$regex}, image, "addedBy.email": email})
ExistingFood(docs, name, image, email) ==
    \E f \in docs : RegexTest(name, f.name) /\ f.image = image /\ f.email = email

\* index.js lines 186-192: the document handed to crudOperation("create")
NewDoc(body, fields, t) ==
    convertNumberFields(body, fields) @@ [createAt |-> t, updateAt |-> t]

\* POST /add/food up to `await crudOperation(...)`, lines 171-192
AddFoodWith(r, tokens, bodies) ==
    \E token \in tokens, body \in bodies, out \in {"ok", "throws"} :
      LET mw == Middleware(token, 0, FALSE)
      IN /\ Arrive(r, "POST /add/food", token, 0, body)
         /\ UNCHANGED <<foods, wishlists, orders, nextId>>
         /\ IF ~mw.next THEN Step(r, "done", mw.res, 0, <<>>, 0, FALSE)
            ELSE IF out = "throws"
            THEN Step(r, "done", mw.res, 1, <<"handler">>, 1, TRUE)
            ELSE IF ExistingFood(foods, body.name, body.image, token.email)
            THEN Step(r, "done", respond(mw.res, 409), 1, <<>>, 0, FALSE)
            ELSE Step(r, "create", mw.res, 1, <<>>, 0, FALSE)

AddFood(r) ==
    AddFoodWith(r, GateTokens,
        {b \in FoodBodies : b.name = <<"p", "i">> /\ b.email = "a@x.io"
                              /\ b.quantity \in {Str(MaxQty), Empty}})

AddFoodAny(r) ==
    AddFoodWith(r, UserTokens,
        {b \in FoodBodies : b.quantity \in {Str(MaxQty), Empty}})

\* POST /add/food: crudOperation("create", foodCollection, newFood, res)
AddFoodCreate(r) ==
    /\ pc[r] = "create"
    /\ req[r].route = "POST /add/food"
    /\ \E out \in {"ok", "throws"} :
         LET c == crudOperation("create", foods,
                      NewDoc(req[r].body, {"price", "quantity"}, now),
                      sent[r], AllFilter, out, nextId)
         IN /\ foods' = c.docs
            /\ nextId' = IF c.docs = foods THEN nextId ELSE nextId + 1
            /\ Finish(r, c, "rethrow")
    /\ UNCHANGED <<wishlists, orders, req>>

\* GET /food/details/:id, lines 297-313
FoodDetailsWith(r, tokens) ==
    \E token \in tokens, id \in IdParams, out \in {"ok", "throws"} :
      LET mw == Middleware(token, id, TRUE)
          c == crudOperation("readOne", foods, NullData, mw.res, IdFilter(id),
                             out, nextId)
      IN /\ Arrive(r, "GET /food/details/:id", token, id, NoBody)
         /\ UNCHANGED <<foods, wishlists, orders, nextId>>
         /\ IF ~mw.next THEN Step(r, "done", mw.res, 0, <<>>, 0, FALSE)
            ELSE Finish(r, c, "rethrow")

FoodDetails(r) == FoodDetailsWith(r, GateTokens)

\* GET /my-foods, /wishlist and /my-orders: the caller's documents of a
\* collection, lines 320-338, 434-452, 518-536
ReadMine(r, route, docs, tokens) ==
    \E token \in tokens, out \in {"ok", "throws"} :
      LET mw == Middleware(token, 0, FALSE)
          c == crudOperation("read", docs, NullData, mw.res,
                             EmailFilter(token.email), out, nextId)
      IN /\ Arrive(r, route, token, 0, NoBody)
         /\ UNCHANGED <<foods, wishlists, orders, nextId>>
         /\ IF ~mw.next THEN Step(r, "done", mw.res, 0, <<>>, 0, FALSE)
            ELSE IF token.email = ""
            THEN Step(r, "done", respond(mw.res, 400), 0, <<>>, 0, FALSE)
            ELSE IF ~emailRegexTest(token.email)
            THEN Step(r, "done", respond(mw.res, 400), 0, <<>>, 0, FALSE)
            ELSE Finish(r, c, "respond500")

MyFoods(r) == ReadMine(r, "GET /my-foods", foods, Tokens)

\* The body of PUT /update/food/:id.
UpdateBodies ==
    {[quantity |-> q] : q \in {Num(1), Str(MaxQty), Empty}}
      \cup {[id |-> 2, quantity |-> Num(1)]}

\* PUT /update/food/:id, lines 345-369
UpdateFoodWith(r, tokens, bodies) ==
    \E token \in tokens, id \in IdParams, body \in bodies,
       out \in {"ok", "throws"} :
      LET mw == Middleware(token, id, TRUE)
          foodData == [updateAt |-> now] @@
                        convertNumberFields(body,
                            {"price", "quantity", "createAt", "updateAt"})
          c == crudOperation("update", foods, foodData, mw.res, IdFilter(id),
                             out, nextId)
      IN /\ Arrive(r, "PUT /update/food/:id", token, id, body)
         /\ UNCHANGED <<wishlists, orders, nextId>>
         /\ IF ~mw.next
            THEN /\ Step(r, "done", mw.res, 0, <<>>, 0, FALSE)
                 /\ UNCHANGED foods
            ELSE /\ foods' = c.docs
                      /\ Finish(r, c, "respond500")

UpdateFood(r) == UpdateFoodWith(r, GateTokens, UpdateBodies)

\* The handlers of DELETE /delete/food/:id and /delete/wishlist/item/:id,
\* lines 380-391 and 463-474: deleteOne without the dispatcher.
DeleteHandler(docs, id, res, out) ==
    IF out = "throws"
    THEN [docs |-> docs, res |-> respond(res, 500), caught |-> <<"handler">>]
    ELSE LET result == deleteOne(docs, IdFilter(id))
         IN IF result.deletedCount = 0
            THEN [docs |-> docs, res |-> respond(res, 404), caught |-> <<>>]
            ELSE [docs |-> result.docs, res |-> respond(res, 200), caught |-> <<>>]

\* DELETE /delete/food/:id, lines 376-392
DeleteFoodWith(r, tokens) ==
    \E token \in tokens, id \in IdParams, out \in {"ok", "throws"} :
      LET mw == Middleware(token, id, TRUE)
          h == DeleteHandler(foods, id, mw.res, out)
      IN /\ Arrive(r, "DELETE /delete/food/:id", token, id, NoBody)
         /\ UNCHANGED <<wishlists, orders, nextId>>
         /\ IF ~mw.next
            THEN Step(r, "done", mw.res, 0, <<>>, 0, FALSE) /\ UNCHANGED foods
            ELSE Step(r, "done", h.res, 1, h.caught, 0, FALSE) /\ foods' = h.docs

DeleteFood(r) == DeleteFoodWith(r, GateTokens)

(***************************************************************************)
(* Wishlist routes.                                                        *)
(***************************************************************************)
\* The body of POST /add/wishlist (email is user.email).
WishBodies == {[foodId |-> f, email |-> e] : f \in 1..2, e \in Emails}

\* Mutant: the existence check looks the foodId up as the entry's own _id.
ExistingWishById(docs, foodData) == find(docs, IdFilter(foodData.foodId)) # {}

\* wishlistCollection.findOne({ foodId })
ExistingWish(docs, foodData) == find(docs, FoodIdFilter(foodData.foodId)) # {}

\* POST /add/wishlist up to `await crudOperation(...)`, lines 402-419
AddWishlistWith(r, tokens, bodies) ==
    \E token \in tokens, body \in bodies, out \in {"ok", "throws"} :
      LET mw == Middleware(token, 0, FALSE)
          foodData == convertNumberFields(body, {"price", "quantity"})
      IN /\ Arrive(r, "POST /add/wishlist", token, 0, body)
         /\ UNCHANGED <<foods, wishlists, orders, nextId>>
         /\ IF ~mw.next THEN Step(r, "done", mw.res, 0, <<>>, 0, FALSE)
            ELSE IF out = "throws"
            THEN Step(r, "done", mw.res, 1, <<"handler">>, 1, TRUE)
            ELSE IF ExistingWish(wishlists, foodData)
            THEN Step(r, "done", respond(mw.res, 409), 1, <<>>, 0, FALSE)
            ELSE Step(r, "create", mw.res, 1, <<>>, 0, FALSE)

AddWishlist(r) ==
    AddWishlistWith(r, GateTokens, {b \in WishBodies : b.email = "a@x.io"})

AddWishlistAny(r) ==
    AddWishlistWith(r, UserTokens, {b \in WishBodies : b.email = "a@x.io"})

\* POST /add/wishlist: crudOperation("create", wishlistCollection, newFood, res)
AddWishlistCreate(r) ==
    /\ pc[r] = "create"
    /\ req[r].route = "POST /add/wishlist"
    /\ \E out \in {"ok", "throws"} :
         LET c == crudOperation("create", wishlists,
                      NewDoc(req[r].body, {"price", "quantity"}, now),
                      sent[r], AllFilter, out, nextId)
         IN /\ wishlists' = c.docs
            /\ nextId' = IF c.docs = wishlists THEN nextId ELSE nextId + 1
            /\ Finish(r, c, "rethrow")
    /\ UNCHANGED <<foods, orders, req>>

\* GET /wishlist, lines 434-452
GetWishlist(r) == ReadMine(r, "GET /wishlist", wishlists, Tokens)

\* DELETE /delete/wishlist/item/:id, lines 459-475
DeleteWishlistWith(r, tokens) ==
    \E token \in tokens, id \in IdParams, out \in {"ok", "throws"} :
      LET mw == Middleware(token, id, TRUE)
          h == DeleteHandler(wishlists, id, mw.res, out)
      IN /\ Arrive(r, "DELETE /delete/wishlist/item/:id", token, id, NoBody)
         /\ UNCHANGED <<foods, orders, nextId>>
         /\ IF ~mw.next
            THEN Step(r, "done", mw.res, 0, <<>>, 0, FALSE) /\ UNCHANGED wishlists
            ELSE /\ Step(r, "done", h.res, 1, h.caught, 0, FALSE)
                 /\ wishlists' = h.docs

DeleteWishlist(r) == DeleteWishlistWith(r, GateTokens)

(***************************************************************************)
(* Order routes.                                                           *)
(***************************************************************************)
\* A line item {foodId, quantity}: foodId 0 is a string that is no ObjectId.
LineItems ==
    {[foodId |-> f, quantity |-> q] :
        f \in 1..2, q \in {Null, Num(0), Num(MaxQty)}}
      \cup {[foodId |-> 0, quantity |-> Null]}

RECURSIVE SeqsUpTo(_, _)
SeqsUpTo(S, n) ==
    IF n = 0 THEN {<<>>}
    ELSE LET shorter == SeqsUpTo(S, n - 1)
         IN shorter \cup {Append(q, x) : q \in {p \in shorter : Len(p) = n - 1},
                                         x \in S}

\* The body of POST /checkout (email is user.email); hasItems is FALSE when
\* the body carries no items field.
OrderBodies(items) ==
    {[items |-> i, hasItems |-> TRUE, email |-> "a@x.io"] :
        i \in SeqsUpTo(items, MaxItems)}
      \cup {[items |-> <<>>, hasItems |-> FALSE, email |-> "a@x.io"]}

\* Mutant: item?.quantity ?? 1 -- only a missing quantity counts as 1.
AmountNullish(item) ==
    IF item.quantity.t = "null" THEN Num(1) ELSE item.quantity

\* item?.quantity || 1
Amount(item) == IF Truthy(item.quantity) THEN item.quantity ELSE Num(1)

\* One updateOne of the batch: {$inc: {quantity: -n, purchaseCount: n}} on
\* the Food with the item's _id.  The store rejects $inc by a value that is
\* no number and $inc of a field that holds no number.
IncOne(docs, item) ==
    LET n == Amount(item)
        hit == find(docs, IdFilter(item.foodId))
    IN IF ~IsNum(n) THEN [ok |-> FALSE, docs |-> docs]
       ELSE IF hit = {} THEN [ok |-> TRUE, docs |-> docs]
       ELSE LET f == FirstMatch(docs, IdFilter(item.foodId))
            IN IF ~IsNum(f.quantity) THEN [ok |-> FALSE, docs |-> docs]
               ELSE [ok |-> TRUE,
                     docs |-> (docs \ {f}) \cup
                         {[f EXCEPT !.quantity = Num(@.v - n.v),
                                    !.purchaseCount = @ + n.v]}]

\* Mutant: an unordered batch, which goes on after an operation failed.
RECURSIVE bulkWriteUnordered(_, _, _)
bulkWriteUnordered(docs, ops, lost) ==
    IF lost = 1 THEN [ok |-> FALSE, docs |-> docs]
    ELSE IF ops = <<>> THEN [ok |-> TRUE, docs |-> docs]
    ELSE LET one == IncOne(docs, Head(ops))
             rest == bulkWriteUnordered(one.docs, Tail(ops),
                                        IF lost = 0 THEN 0 ELSE lost - 1)
         IN [ok |-> one.ok /\ rest.ok, docs |-> rest.docs]

\* foodCollection.bulkWrite(bulkOps), ordered: the operations run in order
\* and the batch stops at the first one that fails, keeping what the earlier
\* ones wrote.  With lost = 0 the connection to the store holds; with
\* lost = k > 0 it is lost when k - 1 operations have run.
RECURSIVE bulkWrite(_, _, _)
bulkWrite(docs, ops, lost) ==
    IF lost = 1 THEN [ok |-> FALSE, docs |-> docs]
    ELSE IF ops = <<>> THEN [ok |-> TRUE, docs |-> docs]
    ELSE LET one == IncOne(docs, Head(ops))
         IN IF ~one.ok THEN [ok |-> FALSE, docs |-> docs]
            ELSE bulkWrite(one.docs, Tail(ops), IF lost = 0 THEN 0 ELSE lost - 1)

\* cartItems?.map(...) raises when new ObjectId(item.foodId) does; bulkWrite
\* raises at once on a batch that is undefined or empty.
BatchRejected(body) ==
    \/ ~body.hasItems
    \/ body.items = <<>>
    \/ \E i \in 1..Len(body.items) : ~ObjectIdIsValid(body.items[i].foodId)

\* POST /checkout up to `await foodCollection.bulkWrite(...)`, lines 486-502
CheckoutWith(r, tokens, bodies) ==
    \E token \in tokens, body \in bodies, out \in {"ok", "throws"} :
      LET mw == Middleware(token, 0, FALSE)
      IN /\ Arrive(r, "POST /checkout", token, 0, body)
         /\ UNCHANGED <<foods, wishlists>>
         /\ IF ~mw.next
            THEN /\ Step(r, "done", mw.res, 0, <<>>, 0, FALSE)
                 /\ UNCHANGED <<orders, nextId>>
            ELSE IF out = "throws"
            THEN /\ Step(r, "done", respond(mw.res, 500), 1, <<"handler">>, 1, FALSE)
                 /\ UNCHANGED <<orders, nextId>>
            ELSE /\ orders' = insertOne(orders, body, nextId)
                 /\ nextId' = nextId + 1
                 /\ IF BatchRejected(body)
                    THEN Step(r, "done", respond(mw.res, 500), 1, <<"handler">>,
                              1, FALSE)
                    ELSE Step(r, "bulk", mw.res, 1, <<>>, 0, FALSE)

CheckoutBodies == OrderBodies(LineItems)

\* Orders of the seeded foods alone.
SeedOrderBodies ==
    OrderBodies({[foodId |-> 1, quantity |-> Num(MaxQty)],
                 [foodId |-> 2, quantity |-> Null]})

Checkout(r) == CheckoutWith(r, GateTokens, SeedOrderBodies)

\* Any order, next to a second request that orders the seeded foods.
CheckoutAny(r) ==
    CheckoutWith(r, {Signed("a@x.io")},
        IF r = "r1" THEN CheckoutBodies ELSE SeedOrderBodies)

\* POST /checkout: the batch runs in the store, lines 502-510
CheckoutBulk(r) ==
    /\ pc[r] = "bulk"
    /\ \E lost \in 0..(Len(req[r].body.items) + 1) :
         LET result == bulkWrite(foods, req[r].body.items, lost)
         IN /\ foods' = result.docs
            /\ IF result.ok
               THEN Step(r, "done", respond(sent[r], 200), 1, <<>>, 0, FALSE)
               ELSE Step(r, "done", respond(sent[r], 500), 1, <<"handler">>, 1,
                         FALSE)
    /\ UNCHANGED <<wishlists, orders, nextId, req>>

\* GET /my-orders, lines 518-536
MyOrders(r) == ReadMine(r, "GET /my-orders", orders, Tokens)

(***************************************************************************)
(* Specifications.                                                         *)
(***************************************************************************)
\* The store the server starts from: two foods added earlier through
\* POST /add/food, the second one with quantity "" (left unconverted); the
\* document with ObjectId 3 was deleted again.
SeedFoods ==
    {SeedFood(1, <<"p", "i">>, "a@x.io", Num(1)),
     SeedFood(2, <<"a", "+", "b">>, "b@x.io", Empty)}

NoRequest ==
    [route |-> "none", token |-> NoToken, id |-> 0, body |-> NoBody, at |-> 0]

\* The requests of `active` have not arrived yet; the other slots stay unused.
InitRequests(active) ==
    /\ pc = [r \in Slots |-> IF r \in active THEN "idle" ELSE "off"]
    /\ req = [r \in Slots |-> NoRequest]
    /\ sent = [r \in Slots |-> <<>>]
    /\ calls = [r \in Slots |-> 0]
    /\ errs = [r \in Slots |-> <<>>]
    /\ logged = [r \in Slots |-> 0]
    /\ thrown = [r \in Slots |-> FALSE]
    /\ doneAt = [r \in Slots |-> 0]
    /\ ret = [r \in Slots |-> NoBody]

InitStore(F, W, O) ==
    /\ foods = F
    /\ wishlists = W
    /\ orders = O
    /\ nextId = 4
    /\ now = 1

\* The server with its ten protected routes and two concurrent requests.
Init == InitStore(SeedFoods, {}, {}) /\ InitRequests({"r1", "r2"})

Next ==
    \E r \in Slots :
        \/ AddFood(r)
        \/ AddFoodCreate(r)
        \/ FoodDetails(r)
        \/ MyFoods(r)
        \/ UpdateFood(r)
        \/ DeleteFood(r)
        \/ AddWishlist(r)
        \/ AddWishlistCreate(r)
        \/ GetWishlist(r)
        \/ DeleteWishlist(r)
        \/ Checkout(r)
        \/ CheckoutBulk(r)
        \/ MyOrders(r)

Spec == Init /\ [][Next]_vars

\* The dispatcher alone: direct calls on a food collection.
InitCrud ==
    /\ \E F \in SUBSET SeedFoods : InitStore(F, {}, {})
    /\ InitRequests({"r1", "r2"})

NextCrud == \E r \in Slots : Dispatch(r)

SpecCrud == InitCrud /\ [][NextCrud]_vars

\* POST /add/wishlist alone, three requests, any interleaving.
InitWishlist == InitStore(SeedFoods, {}, {}) /\ InitRequests(Slots)

NextWishlist == \E r \in Slots : AddWishlistAny(r) \/ AddWishlistCreate(r)

SpecWishlist == InitWishlist /\ [][NextWishlist]_vars

\* POST /checkout alone, from any stock of the two foods.
StockedFoods ==
    {{SeedFood(1, <<"p", "i">>, "a@x.io", Num(n)),
      SeedFood(2, <<"a", "+", "b">>, "b@x.io", q)} :
        n \in 0..MaxQty, q \in {Num(1), Empty}}

InitCheckout ==
    /\ \E F \in StockedFoods : InitStore(F, {}, {})
    /\ InitRequests({"r1", "r2"})

NextCheckout == \E r \in Slots : CheckoutAny(r) \/ CheckoutBulk(r)

SpecCheckout == InitCheckout /\ [][NextCheckout]_vars

\* POST /add/food alone, into an empty or a seeded collection.
InitAddFood ==
    /\ \E F \in {{}, SeedFoods} : InitStore(F, {}, {})
    /\ InitRequests({"r1", "r2"})

NextAddFood == \E r \in Slots : AddFoodAny(r) \/ AddFoodCreate(r)

SpecAddFood == InitAddFood /\ [][NextAddFood]_vars

\* Deletes through the dispatcher and through DELETE /delete/food/:id, with
\* inserts in between.
DeleteCalls ==
    {c \in DispatchCalls :
        \/ c.op = "delete" /\ c.filter.k # "email"
        \/ c.op = "create" /\ c.data # NullData}

DispatchDelete(r) == DispatchWith(r, DeleteCalls)

DeleteFoodAny(r) == DeleteFoodWith(r, {Signed("a@x.io")})

InitDelete ==
    /\ \E F \in SUBSET SeedFoods : InitStore(F, {}, {})
    /\ InitRequests(Slots)

NextDelete == \E r \in Slots : DispatchDelete(r) \/ DeleteFoodAny(r)

SpecDelete == InitDelete /\ [][NextDelete]_vars

(***************************************************************************)
(* The helpers called on their own: one call per slot, its arguments kept  *)
(* in req and what it returned or emitted in ret.                          *)
(***************************************************************************)
\* The call of request r returns: its task ends with `res` written and
\* `value` handed back.
Return(r, res, value) ==
    /\ pc' = [pc EXCEPT ![r] = "done"]
    /\ sent' = [sent EXCEPT ![r] = res]
    /\ ret' = [ret EXCEPT ![r] = value]
    /\ doneAt' = [doneAt EXCEPT ![r] = now]
    /\ now' = now + 1
    /\ UNCHANGED <<foods, wishlists, orders, nextId, calls, errs, logged, thrown>>

\* The fields a request body may carry and the values they may hold.
FieldNames == {"price", "quantity", "name"}

FieldValues == {Num(0), Num(MaxQty), Str(0), Str(MaxQty), Empty, Null, Text}

\* req.body: any subset of the fields, each with any of the values.
Bodies ==
    UNION {[D -> FieldValues] : D \in SUBSET FieldNames}

\* convertNumberFields(obj, fields) called on its own.
ConvertCall(r) ==
    \E obj \in Bodies, fields \in SUBSET FieldNames :
        /\ Arrive(r, "convertNumberFields", NoToken, 0,
                  [obj |-> obj, fields |-> fields])
        /\ Return(r, <<>>, convertNumberFields(obj, fields))

\* The status codes a response may carry.
StatusCodes == 100..599

\* The message arguments: omitted, "", or a text with capitals inside.
Messages == {NoMessage, Message(<<>>), Message(<<"o", "r", "d", "e", "r", " ", "O", "K">>)}

\* The payloads: none, falsy ones and truthy ones.
Payloads == {Null, Num(0), Empty, Num(MaxQty), Obj}

\* respond(res, status, message, data) called on its own.
RespondCall(r) ==
    \E status \in StatusCodes, message \in Messages, data \in Payloads :
        /\ Arrive(r, "respond", NoToken, 0,
                  [status |-> status, message |-> message, data |-> data])
        /\ Return(r, respond(<<>>, status),
                  [status |-> status,
                   body |-> responseBody(status, message, data)])

InitHelpers == InitStore({}, {}, {}) /\ InitRequests({"r1"})

NextHelpers == \E r \in Slots : ConvertCall(r) \/ RespondCall(r)

SpecHelpers == InitHelpers /\ [][NextHelpers]_vars

(***************************************************************************)
(* Properties.                                                             *)
(***************************************************************************)
Arrived(r) == pc[r] \in {"create", "bulk", "done"}

\* The task of r ended before q arrived.
Before(r, q) == pc[r] = "done" /\ Arrived(q) /\ doneAt[r] < req[q].at

\* C1: for every operation name and every store outcome that raises no
\* exception, one call of crudOperation sends exactly one response on res.
ExactlyOneResponse ==
    \A r \in Slots : pc[r] = "done" /\ errs[r] = <<>> => Len(sent[r]) = 1

\* C1 witness: an unknown operation name and an update were each answered
\* once.
ExactlyOneResponseWitness ==
    \E r, q \in Slots :
        /\ pc[r] = "done" /\ req[r].body.op = "patch" /\ sent[r] = <<400>>
        /\ pc[q] = "done" /\ req[q].body.op = "update" /\ errs[q] = <<>>
        /\ Len(sent[q]) = 1

\* C2: an exception raised inside crudOperation is caught and logged there,
\* crudOperation sends nothing and does not rethrow, so the route handler's
\* catch block never runs and the request stays unanswered for good.
StoreErrorUnanswered ==
    /\ [](\A r \in Slots :
            errs[r] # <<>> /\ Head(errs[r]) = "crudOperation" =>
                /\ errs[r] = <<"crudOperation">>
                /\ logged[r] = 1
                /\ ~thrown[r]
                /\ pc[r] = "done"
                /\ sent[r] = <<>>)
    /\ [][\A r \in Slots : pc[r] = "done" => sent'[r] = sent[r]]_vars

\* C2 witness: the store raised under PUT /update/food/:id, whose handler
\* would answer 500 from its catch block, and the request ended unanswered.
StoreErrorUnansweredWitness ==
    \E r \in Slots :
        /\ req[r].route = "PUT /update/food/:id"
        /\ pc[r] = "done"
        /\ errs[r] = <<"crudOperation">>
        /\ sent[r] = <<>>

\* The status the dispatcher owes for a call, from the operation and what
\* the store did: `before` and `after` are the collection around the call.
ExpectedStatus(call, before, after) ==
    CASE call.op = "create" -> IF call.out = "ok" THEN 201 ELSE 400
      [] call.op \in {"read", "readOne"} ->
            IF \E d \in before : Matches(d, call.filter) THEN 200 ELSE 404
      [] call.op \in {"update", "delete"} -> IF after # before THEN 200 ELSE 404
      [] OTHER -> 400

\* C3: the status crudOperation responds with is a function of the operation
\* and the store result: create 201 with an insertedId and 400 without, read
\* and readOne 200 on a match and 404 on none, update 200 when a document was
\* modified and 404 otherwise, delete 200 when one was deleted and 404
\* otherwise, any other name 400 without a store call.
StatusByOperation ==
    [][\A r \in Slots :
          pc[r] = "idle" /\ pc'[r] = "done" /\ errs'[r] = <<>> =>
              /\ sent'[r] = <<ExpectedStatus(req'[r].body, foods, foods')>>
              /\ (req'[r].body.op = "create" /\ req'[r].body.out = "ok"
                    => Cardinality(foods') = Cardinality(foods) + 1)
              /\ (req'[r].body.op \in {"read", "readOne"} => foods' = foods)
              /\ (req'[r].body.op \notin {"create", "read", "readOne",
                                          "update", "delete"}
                    => calls'[r] = 0 /\ foods' = foods)]_vars

\* C3 witness: an update whose filter matches a document that the set-merge
\* left as it was answered 404.
StatusByOperationWitness ==
    \E r \in Slots :
        /\ pc[r] = "done"
        /\ req[r].body.op = "update"
        /\ errs[r] = <<>>
        /\ sent[r] = <<404>>
        /\ \E d \in foods :
              /\ Matches(d, req[r].body.filter)
              /\ d.quantity = req[r].body.data.quantity

\* C4: on every protected route a request without a token, or with one that
\* fails verification, gets exactly one 401; neither the id-format check nor
\* the handler runs, no store call is issued and the store is unchanged.
UnauthorizedShortCircuit ==
    /\ [](\A r \in Slots :
            Arrived(r) /\ req[r].token.kind # "valid" =>
                /\ pc[r] = "done"
                /\ sent[r] = <<401>>
                /\ calls[r] = 0
                /\ errs[r] = <<>>)
    /\ [][\A r \in Slots :
            pc[r] = "idle" /\ pc'[r] # "idle" /\ req'[r].token.kind # "valid"
                => UNCHANGED <<foods, wishlists, orders>>]_vars

\* C4 witness: a DELETE with a token that fails verification and a malformed
\* id, and a checkout without token, were each answered 401.
UnauthorizedShortCircuitWitness ==
    \E r, q \in Slots :
        /\ req[r].route = "DELETE /delete/food/:id"
        /\ req[r].token = BadToken
        /\ req[r].id = 0
        /\ sent[r] = <<401>>
        /\ req[q].route = "POST /checkout"
        /\ req[q].token = NoToken
        /\ sent[q] = <<401>>

\* C5 (as claimed): after any sequence of POST /add/wishlist requests, also
\* when their checks and inserts interleave, the wishlist holds at most one
\* entry per foodId.
WishlistUnique ==
    \A v, w \in wishlists : v.foodId = w.foodId => v = w

\* Every two requests that arrived were handled one after the other.
HandledInTurn ==
    \A r, q \in Slots :
        r # q /\ Arrived(r) /\ Arrived(q) => Before(r, q) \/ Before(q, r)

\* C5 (amended): when the requests are handled one after another, each one's
\* check and insert before the next one's check, the wishlist holds at most
\* one entry per foodId, whichever users send them.
WishlistUniqueInTurn == HandledInTurn => WishlistUnique

\* C5 witness: three requests of two users for the same food, handled in
\* turn: the first was answered 201 and the later ones 409.
WishlistUniqueInTurnWitness ==
    /\ HandledInTurn
    /\ Before("r1", "r2") /\ Before("r2", "r3")
    /\ req["r1"].body.foodId = 1 /\ req["r2"].body.foodId = 1
    /\ req["r3"].body.foodId = 1
    /\ req["r1"].token # req["r2"].token
    /\ sent["r1"] = <<201>> /\ sent["r2"] = <<409>> /\ sent["r3"] = <<409>>
    /\ Cardinality(wishlists) = 1

\* C6 (as claimed): checkouts never take a Food's quantity below zero.
QuantityNeverNegative ==
    \A f \in foods : IsNum(f.quantity) => f.quantity.v >= 0

\* The units a line item orders: its quantity, or 1 when the quantity is
\* missing or 0.
Units(item) ==
    IF item.quantity.t = "num" /\ item.quantity.v # 0 THEN item.quantity.v ELSE 1

\* The units the line items order of the food with this id.
RECURSIVE Ordered(_, _)
Ordered(items, id) ==
    IF items = <<>> THEN 0
    ELSE (IF Head(items).foodId = id THEN Units(Head(items)) ELSE 0)
            + Ordered(Tail(items), id)

\* The foods once the line items are booked: quantity down and purchaseCount
\* up by the units ordered, foods that no line item names as they were.
Booked(docs, items) ==
    {IF \E i \in 1..Len(items) : items[i].foodId = f.id
     THEN [f EXCEPT !.quantity = Num(@.v - Ordered(items, f.id)),
                    !.purchaseCount = @ + Ordered(items, f.id)]
     ELSE f : f \in docs}

\* C7: a successful POST /checkout records the request body as one Order,
\* takes the units of every line item off the Food's quantity and adds them
\* to its purchaseCount (a missing or zero quantity counts as 1, line items of
\* one food add up), leaves the other Foods as they were and responds 200;
\* quantity + purchaseCount of every Food is the same after any checkout step.
CheckoutBooksEveryItem ==
    [][/\ \A r \in Slots :
            /\ pc[r] = "idle" /\ pc'[r] = "bulk" =>
                  /\ foods' = foods
                  /\ Cardinality(orders') = Cardinality(orders) + 1
                  /\ \E o \in orders' \ orders :
                        /\ o.items = req'[r].body.items
                        /\ o.email = req'[r].body.email
            /\ pc[r] = "bulk" /\ pc'[r] = "done" /\ 200 \in {sent'[r][i] : i \in 1..Len(sent'[r])} =>
                  /\ sent'[r] = <<200>>
                  /\ orders' = orders
                  /\ \E o \in orders : o.items = req[r].body.items
                  /\ foods' = Booked(foods, req[r].body.items)
       /\ \A f \in foods :
            IsNum(f.quantity) =>
                \E g \in foods' :
                    /\ g.id = f.id
                    /\ IsNum(g.quantity)
                    /\ g.quantity.v + g.purchaseCount
                         = f.quantity.v + f.purchaseCount]_vars

\* C7 witness: a checkout answered 200 booked two line items of food 1, one
\* of them with quantity 0.
CheckoutBooksEveryItemWitness ==
    \E r \in Slots :
        /\ pc[r] = "done"
        /\ sent[r] = <<200>>
        /\ req[r].body.items = <<[foodId |-> 1, quantity |-> Num(0)],
                                 [foodId |-> 1, quantity |-> Num(MaxQty)]>>
        /\ \E f \in foods : f.id = 1 /\ f.purchaseCount >= MaxQty + 1

\* A step on which the stock update of request r failed after its order
\* insert succeeded: before the batch was sent, or in the store.
StockUpdateFailed(r) ==
    \/ pc[r] = "idle" /\ pc'[r] = "done" /\ orders' # orders
    \/ pc[r] = "bulk" /\ pc'[r] = "done" /\ errs'[r] # <<>>

\* The order of request r is recorded.
OrderKept(r) ==
    /\ \E o \in orders' : o.items = req'[r].body.items
    /\ \A o \in orders : o \in orders'

\* C8 (as claimed): when the stock update fails after the order insert
\* succeeded, the Order stays recorded, no Food changes and the request gets
\* exactly one response, a 500.
FailedStockUpdateChangesNoFood ==
    [][\A r \in Slots :
          StockUpdateFailed(r) =>
              /\ OrderKept(r)
              /\ sent'[r] = <<500>>
              /\ foods' = foods]_vars

\* C8 (amended): the Order stays recorded and the request gets exactly one
\* 500; no Food changes when the failure precedes the batch (items absent or
\* empty, a malformed foodId), and when the batch fails in the store exactly
\* the line items before the failing one are booked.
FailedStockUpdateKeepsPrefix ==
    [][\A r \in Slots :
          StockUpdateFailed(r) =>
              /\ OrderKept(r)
              /\ sent'[r] = <<500>>
              /\ (pc[r] = "idle" => foods' = foods)
              /\ (pc[r] = "bulk" =>
                    \E k \in 0..Len(req[r].body.items) :
                        foods' = Booked(foods, SubSeq(req[r].body.items, 1, k)))]_vars

\* C8 witness: a checkout of food 1 and then food 2, whose quantity is "",
\* was answered 500 with the units of food 1 booked.
FailedStockUpdateKeepsPrefixWitness ==
    \E r \in Slots :
        /\ pc[r] = "done"
        /\ sent[r] = <<500>>
        /\ req[r].body.items = <<[foodId |-> 1, quantity |-> Num(MaxQty)],
                                 [foodId |-> 2, quantity |-> Null]>>
        /\ \E f \in foods : f.id = 2 /\ f.quantity = Empty
        /\ \E f \in foods : f.id = 1 /\ f.purchaseCount = MaxQty
        /\ \E o \in orders : o.items = req[r].body.items

\* C9 (as claimed): of two POST /add/food requests with the same token email,
\* name and image, handled one after the other, the first answered 201, the
\* second is answered 409 and inserts nothing.
SecondAddConflicts ==
    \A r, q \in Slots :
        /\ Before(r, q)
        /\ pc[q] = "done"
        /\ req[r].token.email = req[q].token.email
        /\ req[r].body.name = req[q].body.name
        /\ req[r].body.image = req[q].body.image
        /\ sent[r] = <<201>>
        /\ errs[q] = <<>>
        => /\ sent[q] = <<409>>
           /\ Cardinality({f \in foods : f.id >= 4}) = 1

\* The request is a delete that reached the store and that the store
\* answered: a "delete" call of crudOperation, or DELETE /delete/food/:id past
\* the token and id checks.
DeleteAnswered(rq, caught) ==
    /\ caught = <<>>
    /\ \/ rq.route = "crudOperation" /\ rq.body.op = "delete"
       \/ /\ rq.route = "DELETE /delete/food/:id"
          /\ rq.token.kind = "valid"
          /\ ObjectIdIsValid(rq.id)

\* The filter of a delete request.
DeleteFilter(rq) ==
    IF rq.route = "crudOperation" THEN rq.body.filter ELSE IdFilter(rq.id)

\* Request r is handled on this step and is an answered delete.
DeleteStep(r) ==
    /\ pc[r] = "idle"
    /\ pc'[r] = "done"
    /\ DeleteAnswered(req'[r], errs'[r])

\* An earlier delete with this filter responded 200.
DeletedBefore(filter) ==
    \E q \in Slots :
        /\ pc[q] = "done"
        /\ DeleteAnswered(req[q], errs[q])
        /\ DeleteFilter(req[q]) = filter
        /\ sent[q] = <<200>>

\* C10 (as claimed): a delete whose filter matches no document responds 404
\* and leaves the collection unchanged, however often it is repeated, and
\* once a delete has responded 200 every later delete with the same filter
\* responds 404.
DeleteTwiceNotFound ==
    [][\A r \in Slots :
          DeleteStep(r) =>
              /\ find(foods, DeleteFilter(req'[r])) = {} =>
                    sent'[r] = <<404>> /\ foods' = foods
              /\ DeletedBefore(DeleteFilter(req'[r])) =>
                    sent'[r] = <<404>>]_vars

\* C10 (amended): a delete whose filter matches no document responds 404 and
\* leaves the collection unchanged, however often it is repeated, and once a
\* delete by _id has responded 200 every later delete with the same _id
\* responds 404 and leaves the collection unchanged.
DeleteByIdTwiceNotFound ==
    [][\A r \in Slots :
          DeleteStep(r) =>
              /\ find(foods, DeleteFilter(req'[r])) = {} =>
                    sent'[r] = <<404>> /\ foods' = foods
              /\ DeleteFilter(req'[r]).k = "id"
                   /\ DeletedBefore(DeleteFilter(req'[r])) =>
                    sent'[r] = <<404>> /\ foods' = foods]_vars

\* C10 witness: a delete by _id responded 200 and two later deletes with the
\* same _id, one through crudOperation and one through the route, responded
\* 404.
DeleteByIdTwiceNotFoundWitness ==
    \E q, r, t \in Slots :
        /\ pc[q] = "done" /\ pc[r] = "done" /\ pc[t] = "done"
        /\ doneAt[q] < doneAt[r] /\ doneAt[r] < doneAt[t]
        /\ DeleteAnswered(req[q], errs[q])
        /\ DeleteAnswered(req[r], errs[r])
        /\ DeleteAnswered(req[t], errs[t])
        /\ DeleteFilter(req[q]) = IdFilter(1)
        /\ DeleteFilter(req[r]) = IdFilter(1)
        /\ DeleteFilter(req[t]) = IdFilter(1)
        /\ req[r].route # req[t].route
        /\ sent[q] = <<200>>
        /\ sent[r] = <<404>>
        /\ sent[t] = <<404>>

\* Request r is a finished call of convertNumberFields.
Converted(r) == pc[r] = "done" /\ req[r].route = "convertNumberFields"

\* The number a value denotes: a number itself, a numeral's number, NaN for
\* any other non-empty string.
Denotes(x) ==
    CASE x.t = "str" -> Num(x.v)
      [] x.t = "text" -> NaN
      [] OTHER -> x

\* The returned record has the fields of obj; fields that are not named and
\* fields holding 0, "" or null are as they were; named fields holding a
\* non-zero number or a string other than "" and "0" hold the number the
\* value denotes.
ConvertsAsStated(obj, fields, out) ==
    /\ DOMAIN out = DOMAIN obj
    /\ \A f \in DOMAIN obj :
          /\ f \notin fields => out[f] = obj[f]
          /\ obj[f] \in {Num(0), Empty, Null} => out[f] = obj[f]
          /\ f \in fields /\ obj[f] \notin {Num(0), Empty, Null, Str(0)} =>
                out[f] = Denotes(obj[f])

\* C11 (as claimed): convertNumberFields replaces each named field holding a
\* truthy value by its numeric conversion, leaves falsy values and fields
\* not named untouched, and leaves a quantity given as the string "0" the
\* string "0".
ConvertKeepsZeroString ==
    \A r \in Slots :
        Converted(r) =>
            /\ ConvertsAsStated(req[r].body.obj, req[r].body.fields, ret[r])
            /\ "quantity" \in DOMAIN req[r].body.obj
                 /\ req[r].body.obj.quantity = Str(0) =>
                    ret[r].quantity = Str(0)

\* C11 (amended): convertNumberFields replaces each named field holding a
\* truthy value by its numeric conversion and leaves falsy values (0, "",
\* null, undefined) and fields not named untouched; the string "0" is
\* truthy, so a named field holding "0" becomes the number 0.
ConvertTurnsZeroStringToZero ==
    \A r \in Slots :
        Converted(r) =>
            /\ ConvertsAsStated(req[r].body.obj, req[r].body.fields, ret[r])
            /\ \A f \in DOMAIN req[r].body.obj :
                  req[r].body.obj[f] = Str(0) =>
                      ret[r][f] = IF f \in req[r].body.fields
                                  THEN Num(0) ELSE Str(0)

\* C11 witness: a call with quantity "0" and price "" named, and a name that
\* is not named, returned quantity 0 and left the other two as they were.
ConvertTurnsZeroStringToZeroWitness ==
    \E r \in Slots :
        /\ Converted(r)
        /\ req[r].body.fields = {"price", "quantity"}
        /\ req[r].body.obj = [price |-> Empty, quantity |-> Str(0), name |-> Text]
        /\ ret[r] = [price |-> Empty, quantity |-> Num(0), name |-> Text]

\* Request r is a finished call of respond without a message argument.
RespondedByDefault(r) ==
    /\ pc[r] = "done"
    /\ req[r].route = "respond"
    /\ ~req[r].body.message.given

\* C12: respond(res, s) with no message sets the HTTP status to s and emits
\* a body whose success is (200 <= s < 300) and whose message is the table
\* default of s when the table has one, and otherwise "Operation successful"
\* when success is true and "Operation failed" when it is false; the data
\* key is present only when a non-null payload was given.
RespondDefaultMessage ==
    \A r \in Slots :
        RespondedByDefault(r) =>
            LET s == req[r].body.status
                body == ret[r].body
            IN /\ sent[r] = <<s>>
               /\ ret[r].status = s
               /\ body.success = (200 <= s /\ s < 300)
               /\ body.message =
                     IF s \in TableCodes THEN statusMessages(s)
                     ELSE IF body.success THEN OperationSuccessful
                     ELSE OperationFailed
               /\ "data" \in DOMAIN body => req[r].body.data # Null

====
